---- MODULE Spec2Model ----
(***************************************************************************)
(* World-Anvil-MCP: the response cache (cache.py, InMemoryCache) and the   *)
(* request pipeline that drives it (client.py, WorldAnvilClient._request). *)
(*                                                                         *)
(* Strings are sequences of one-character strings, so that path.split,     *)
(* f-string concatenation and re.match are computed, not assumed.          *)
(* time.time() is the variable now, a non-decreasing clock in abstract     *)
(* ticks; TTLs are counted in the same ticks.                              *)
(***************************************************************************)
EXTENDS Integers, Sequences, FiniteSets, TLC

VARIABLES
    cache,        \* InMemoryCache._cache: OrderedDict, oldest entry first
    max_entries,  \* InMemoryCache._max_entries
    default_ttl,  \* InMemoryCache._default_ttl (= client.default_cache_ttl)
    now,          \* time.time()
    last,         \* the cache operation that ran last, with its result (history)
    recency,      \* history: rank of each key's latest get-hit or set
    written,      \* history: per key, the latest set not yet undone
    client_open,  \* WorldAnvilClient._client is not None
    max_retries,  \* WorldAnvilClient.max_retries
    srv,          \* version of the remote resource (bumped by a mutation)
    rq,           \* the request in progress: locals of _request
    prior,        \* history: the cache's promise when rq was made
    hist,         \* history: the completed requests of this run (WriteReadSpec),
                  \* the outcomes of the attempts of rq (FailureSpec)
    parked        \* the other coroutines suspended in _request on the same
                  \* client, each with its locals; rq is the one that runs next

vars == <<cache, max_entries, default_ttl, now, last, recency, written,
          client_open, max_retries, srv, rq, prior, hist, parked>>

----------------------------------------------------------------------------
(* Bounds of the model                                                     *)

MaxCapacity == 2
MaxTime == 1
MaxClock == 3
LongTtl == 2
MaxTtl == 0
DefaultTtl == 1
MaxRetries == 3
MaxRequests == 3

\* Python's None as a value; every cached value is a record
None == [py |-> "None"]

\* an optional argument: Nil when it is None, Some(x) otherwise
Nil == {}

Some(x) == {x}

The(o) == CHOOSE x \in o : TRUE

\* no exception
Ok == "ok"

----------------------------------------------------------------------------
(* Python's re, for the patterns the model uses: literals, ".", a postfix  *)
(* "*", and "(" (never closed in the model's alphabet).                    *)

ReError == "re.error"

\* what the parse of a bad pattern yields
BadPattern == <<[kind |-> "bad", ch |-> "", star |-> FALSE]>>

ReAtom(kind, ch) == [kind |-> kind, ch |-> ch, star |-> FALSE]

RECURSIVE re_parse(_, _)
re_parse(p, acc) ==
    IF p = <<>> THEN acc
    ELSE LET c == Head(p) IN
         IF c = "(" THEN BadPattern            \* missing ), unterminated subpattern
         ELSE IF c = "*" THEN
              IF acc = <<>> \/ acc[Len(acc)].star
              THEN BadPattern                  \* nothing to repeat / multiple repeat
              ELSE re_parse(Tail(p), [acc EXCEPT ![Len(acc)].star = TRUE])
         ELSE IF c = "." THEN re_parse(Tail(p), Append(acc, ReAtom("any", c)))
         ELSE re_parse(Tail(p), Append(acc, ReAtom("lit", c)))

re_compile(pattern) == re_parse(pattern, <<>>)

\* "." matches any character except a newline (no DOTALL flag)
AtomMatches(a, ch) == IF a.kind = "any" THEN ch # "\n" ELSE ch = a.ch

\* regex.match(key): anchored at the start, the rest of the key is free
RECURSIVE re_match(_, _)
re_match(atoms, s) ==
    IF atoms = <<>> THEN TRUE
    ELSE LET a == Head(atoms) IN
         IF a.star
         THEN re_match(Tail(atoms), s)
              \/ (s # <<>> /\ AtomMatches(a, Head(s)) /\ re_match(atoms, Tail(s)))
         ELSE s # <<>> /\ AtomMatches(a, Head(s)) /\ re_match(Tail(atoms), Tail(s))

\* substring test, used by the properties only
RECURSIVE IsPrefix(_, _)
IsPrefix(t, s) ==
    IF t = <<>> THEN TRUE
    ELSE s # <<>> /\ Head(t) = Head(s) /\ IsPrefix(Tail(t), Tail(s))

RECURSIVE Contains(_, _)
Contains(s, t) ==
    IsPrefix(t, s) \/ (s # <<>> /\ Contains(Tail(s), t))

----------------------------------------------------------------------------
(* InMemoryCache: the OrderedDict is a sequence of entries, oldest first   *)

CacheEntry(k, v, e) == [key |-> k, value |-> v, expires_at |-> e]

StoredKeys(c) == {c[i].key : i \in 1..Len(c)}

Has(c, k) == k \in StoredKeys(c)

IndexOf(c, k) == CHOOSE i \in 1..Len(c) : c[i].key = k

EntryOf(c, k) == c[IndexOf(c, k)]

\* del self._cache[key]
DelKey(c, k) == SelectSeq(c, LAMBDA e : e.key # k)

\* a move_to_end that leaves the entry where it is
move_to_end_Noop(c, k) == c

\* self._cache.move_to_end(key)
move_to_end(c, k) == Append(DelKey(c, k), EntryOf(c, k))

\* a popitem that takes the newest entry
popitem_first_Last(c) == SubSeq(c, 1, Len(c) - 1)

\* self._cache.popitem(last=False)
popitem_first(c) == Tail(c)

\* self._cache[key] = entry: an existing key keeps its place, a new one is appended
SetItem(c, k, e) ==
    IF Has(c, k) THEN [c EXCEPT ![IndexOf(c, k)] = e] ELSE Append(c, e)

\* an expiry test that still serves the entry at its expiration instant
IsExpired_Late(t, e) == t > e.expires_at

\* get: now >= entry.expires_at
IsExpired(t, e) == t >= e.expires_at

\* a get whose hit renews the entry's time to live (a sliding TTL)
cache_get_Sliding(c, k, t) ==
    IF ~Has(c, k) THEN [cache |-> c, ret |-> None]
    ELSE IF IsExpired(t, EntryOf(c, k))
         THEN [cache |-> DelKey(c, k), ret |-> None]
         ELSE [cache |-> Append(DelKey(c, k),
                                [EntryOf(c, k) EXCEPT !.expires_at = t + default_ttl]),
               ret |-> EntryOf(c, k).value]

\* InMemoryCache.get at time t: the new store and the returned value
cache_get(c, k, t) ==
    IF ~Has(c, k) THEN [cache |-> c, ret |-> None]
    ELSE IF IsExpired(t, EntryOf(c, k))
         THEN [cache |-> DelKey(c, k), ret |-> None]
         ELSE [cache |-> move_to_end(c, k), ret |-> EntryOf(c, k).value]

\* "ttl or default": a zero TTL falls back to the default
EffectiveTtl_Falsy(ttl, dflt) == IF ttl # Nil /\ The(ttl) # 0 THEN The(ttl) ELSE dflt

\* set: ttl if ttl is not None else self._default_ttl
EffectiveTtl(ttl, dflt) == IF ttl # Nil THEN The(ttl) ELSE dflt

\* an eviction test that lets the store grow one past its capacity
MustEvict_OffByOne(c, k) == Len(c) > max_entries /\ ~Has(c, k)

\* an eviction test that forgets to ask whether the key is new
MustEvict_AnyKey(c, k) == Len(c) >= max_entries

\* set: the eviction test
MustEvict(c, k) == Len(c) >= max_entries /\ ~Has(c, k)

\* a set that adds its entry without looking for the key
cache_set_Blind(c, k, v, ttl, t) ==
    [cache |-> Append(c, CacheEntry(k, v, t + EffectiveTtl(ttl, default_ttl))),
     raised |-> Ok]

\* InMemoryCache.set at time t; popitem on an empty OrderedDict raises KeyError
cache_set(c, k, v, ttl, t) ==
    LET expires_at == t + EffectiveTtl(ttl, default_ttl) IN
    IF MustEvict(c, k) /\ c = <<>>
    THEN [cache |-> c, raised |-> "KeyError"]
    ELSE LET c1 == IF MustEvict(c, k) THEN popitem_first(c) ELSE c
             c2 == SetItem(c1, k, CacheEntry(k, v, expires_at))
         IN [cache |-> move_to_end(c2, k), raised |-> Ok]

\* an invalidate that removes every key that starts with the given one
cache_invalidate_Prefix(c, k) == SelectSeq(c, LAMBDA e : ~IsPrefix(k, e.key))

\* InMemoryCache.invalidate
cache_invalidate(c, k) == IF Has(c, k) THEN DelKey(c, k) ELSE c

\* an invalidate_pattern that stops at the first key it removes
cache_invalidate_pattern_FirstOnly(c, pattern) ==
    LET regex == re_compile(pattern)
        hits == {i \in 1..Len(c) : re_match(regex, c[i].key)}
    IN IF regex = BadPattern
       THEN [cache |-> c, ret |-> 0, raised |-> ReError]
       ELSE IF hits = {} THEN [cache |-> c, ret |-> 0, raised |-> Ok]
       ELSE [cache |-> DelKey(c, c[CHOOSE i \in hits : \A j \in hits : i <= j].key),
             ret |-> 1, raised |-> Ok]

\* an invalidate_pattern that takes a pattern it cannot compile for one
\* that matches nothing
cache_invalidate_pattern_Absorbed(c, pattern) ==
    LET regex == re_compile(pattern) IN
    IF regex = BadPattern
    THEN [cache |-> c, ret |-> 0, raised |-> Ok]
    ELSE LET keep == SelectSeq(c, LAMBDA e : ~re_match(regex, e.key))
         IN [cache |-> keep, ret |-> Len(c) - Len(keep), raised |-> Ok]

\* InMemoryCache.invalidate_pattern: re.compile raises re.error on a bad pattern
cache_invalidate_pattern(c, pattern) ==
    LET regex == re_compile(pattern) IN
    IF regex = BadPattern
    THEN [cache |-> c, ret |-> 0, raised |-> ReError]
    ELSE LET keep == SelectSeq(c, LAMBDA e : ~re_match(regex, e.key))
         IN [cache |-> keep, ret |-> Len(c) - Len(keep), raised |-> Ok]

\* InMemoryCache.clear
cache_clear(c) == <<>>

\* a stats that counts an entry as expired only after its expiration instant
cache_stats_Late(c, t) ==
    [current |-> Len(c),
     expired |-> Cardinality({i \in 1..Len(c) : t > c[i].expires_at}),
     max_entries |-> max_entries]

\* InMemoryCache.stats at time t
cache_stats(c, t) ==
    [current |-> Len(c),
     expired |-> Cardinality({i \in 1..Len(c) : t >= c[i].expires_at}),
     max_entries |-> max_entries]

----------------------------------------------------------------------------
(* The cache engine driven directly: any sequence of get, set, invalidate, *)
(* invalidate_pattern, clear and stats calls, with the clock advancing.    *)

\* keys "w", "u", "uw"
CacheKeys == {<<"w">>, <<"u">>, <<"u", "w">>}

CacheValues == {None, [py |-> "v1"]}

TtlArgs == {Nil} \cup {Some(t) : t \in 0..MaxTtl}

\* patterns "w", "u.*", ".*w.*", "(", "w**"
CachePatterns ==
    {<<"w">>, <<"u", ".", "*">>, <<".", "*", "w", ".", "*">>, <<"(">>, <<"w", "*", "*">>}

Removed(before, after) == StoredKeys(before) \ StoredKeys(after)

NoOp == [op |-> "none", key |-> <<>>, ret |-> None, raised |-> Ok,
         had |-> FALSE, removed |-> {}]

Op(name, k, ret, raised, before, after) ==
    [op |-> name, key |-> k, ret |-> ret, raised |-> raised,
     had |-> Has(before, k), removed |-> Removed(before, after)]

\* history: k becomes the most recently touched key; ranks stay 1..n
Touch(r, k) ==
    [x \in DOMAIN r |->
        IF x = k THEN Cardinality({y \in DOMAIN r : y # k /\ r[y] > 0}) + 1
        ELSE IF r[k] > 0 /\ r[x] > r[k] THEN r[x] - 1 ELSE r[x]]

\* history: the keys of gone are no longer stored; the other ranks stay 1..n
Drop(r, gone) ==
    [x \in DOMAIN r |->
        IF x \in gone THEN 0
        ELSE r[x] - Cardinality({y \in gone : r[y] > 0 /\ r[y] < r[x]})]

\* history: the keys of gone are no longer covered by their latest set
Forget(w, gone) == [x \in DOMAIN w |-> IF x \in gone THEN None ELSE w[x]]


PipelineIdle ==
    UNCHANGED <<client_open, max_retries, srv, rq, prior, hist, parked>>

CacheInit ==
    /\ cache = <<>>
    /\ max_entries \in 0..MaxCapacity
    /\ default_ttl = DefaultTtl
    /\ now = 0
    /\ last = NoOp
    /\ recency = [k \in CacheKeys |-> 0]
    /\ written = [k \in CacheKeys |-> None]
    /\ client_open = FALSE
    /\ max_retries = 0
    /\ srv = 0
    /\ rq = [pc |-> "idle"]
    /\ prior = [live |-> FALSE, value |-> None]
    /\ hist = <<>>
    /\ parked = <<>>

Get(k) ==
    LET r == cache_get(cache, k, now) IN
    /\ cache' = r.cache
    /\ last' = Op("get", k, r.ret, Ok, cache, r.cache)
    /\ recency' = IF Has(r.cache, k) THEN Touch(recency, k)
                  ELSE Drop(recency, Removed(cache, r.cache))
    /\ written' = Forget(written, Removed(cache, r.cache))
    /\ UNCHANGED <<max_entries, default_ttl, now>>
    /\ PipelineIdle

Set(k, v, ttl) ==
    LET r == cache_set(cache, k, v, ttl, now) IN
    /\ cache' = r.cache
    /\ last' = Op("set", k, None, r.raised, cache, r.cache)
    /\ recency' = IF r.raised = Ok
                  THEN Touch(Drop(recency, Removed(cache, r.cache)), k)
                  ELSE recency
    /\ written' =
          IF r.raised # Ok THEN written
          ELSE [Forget(written, Removed(cache, r.cache))
                   EXCEPT ![k] = [value |-> v,
                                  until |-> now + (IF ttl = Nil THEN default_ttl
                                                   ELSE The(ttl))]]
    /\ UNCHANGED <<max_entries, default_ttl, now>>
    /\ PipelineIdle

Invalidate(k) ==
    /\ cache' = cache_invalidate(cache, k)
    /\ last' = Op("invalidate", k, None, Ok, cache, cache')
    /\ written' = Forget(written, {k})
    /\ recency' = Drop(recency, {k})
    /\ UNCHANGED <<max_entries, default_ttl, now>>
    /\ PipelineIdle

InvalidatePattern(p) ==
    LET r == cache_invalidate_pattern(cache, p) IN
    /\ cache' = r.cache
    /\ last' = Op("invalidate_pattern", p, r.ret, r.raised, cache, r.cache)
    /\ written' = Forget(written, Removed(cache, r.cache))
    /\ recency' = Drop(recency, Removed(cache, r.cache))
    /\ UNCHANGED <<max_entries, default_ttl, now>>
    /\ PipelineIdle

Clear ==
    /\ cache' = cache_clear(cache)
    /\ last' = Op("clear", <<>>, None, Ok, cache, cache')
    /\ written' = [k \in DOMAIN written |-> None]
    /\ recency' = [k \in DOMAIN recency |-> 0]
    /\ UNCHANGED <<max_entries, default_ttl, now>>
    /\ PipelineIdle

Stats ==
    /\ last' = Op("stats", <<>>, cache_stats(cache, now), Ok, cache, cache)
    /\ UNCHANGED <<cache, max_entries, default_ttl, now, recency, written>>
    /\ PipelineIdle

\* the wall clock moves between two calls
CacheTick ==
    /\ now < MaxTime
    /\ now' = now + 1
    /\ last' = NoOp
    /\ UNCHANGED <<cache, max_entries, default_ttl, recency, written>>
    /\ PipelineIdle

CacheNext ==
    \/ \E k \in CacheKeys : Get(k)
    \/ \E k \in CacheKeys, v \in CacheValues, ttl \in TtlArgs : Set(k, v, ttl)
    \/ \E k \in CacheKeys : Invalidate(k)
    \/ \E p \in CachePatterns : InvalidatePattern(p)
    \/ Clear
    \/ Stats
    \/ CacheTick

CacheSpec == CacheInit /\ [][CacheNext]_vars

----------------------------------------------------------------------------
(* Strings of the client                                                   *)

S_identity == <<"i", "d", "e", "n", "t", "i", "t", "y">>

S_user == <<"u", "s", "e", "r">>

S_self == <<"s", "e", "l", "f">>

S_world == <<"w", "o", "r", "l", "d">>

S_worlds == <<"w", "o", "r", "l", "d", "s">>

S_list == <<"l", "i", "s", "t">>

Digits == <<"0", "1", "2", "3", "4", "5", "6", "7", "8", "9">>

\* str(n) for an int n
RECURSIVE StrNat(_)
StrNat(n) ==
    IF n < 10 THEN <<Digits[n + 1]>>
    ELSE StrNat(n \div 10) \o <<Digits[(n % 10) + 1]>>

Str(n) == IF n < 0 THEN <<"-">> \o StrNat(0 - n) ELSE StrNat(n)

\* s.split(sep): the segments between the separators, empty ones included
RECURSIVE SplitFrom(_, _, _)
SplitFrom(s, sep, cur) ==
    IF s = <<>> THEN <<cur>>
    ELSE IF Head(s) = sep THEN <<cur>> \o SplitFrom(Tail(s), sep, <<>>)
    ELSE SplitFrom(Tail(s), sep, Append(cur, Head(s)))

Split(s, sep) == SplitFrom(s, sep, <<>>)

\* sep in s
InStr(sep, s) == \E i \in 1..Len(s) : s[i] = sep

\* seconds as clock ticks: one tick of now is five minutes
Ticks(seconds) == seconds \div 300

----------------------------------------------------------------------------
(* WorldAnvilClient: the calls its endpoint methods make to _request       *)

Call(method, path, params, cache_key, cache_ttl) ==
    [method |-> method, path |-> path, params |-> params,
     cache_key |-> cache_key, cache_ttl |-> cache_ttl]

\* a detail level that is always the default one
Granularity_Default(g) == [granularity |-> Str(1)]

\* params={"granularity": str(granularity)}
Granularity(g) == [granularity |-> Str(g)]

get_identity ==
    Call("GET", <<"/">> \o S_identity, Nil, Some(S_identity), Some(Ticks(3600)))

get_current_user(g) ==
    Call("GET", <<"/">> \o S_user, Some(Granularity(g)),
         Some(S_user \o <<":">> \o S_self \o <<":">> \o Str(g)),
         Some(Ticks(3600)))

list_worlds(g) ==
    Call("GET", <<"/">> \o S_user \o <<"/">> \o S_worlds, Some(Granularity(g)),
         Some(S_worlds \o <<":">> \o S_list \o <<":">> \o Str(g)),
         Some(Ticks(300)))

get_world(world_id, g) ==
    Call("GET", <<"/">> \o S_world \o <<"/">> \o world_id, Some(Granularity(g)),
         Some(S_world \o <<":">> \o world_id \o <<":">> \o Str(g)),
         Some(Ticks(300)))

update_world(world_id) ==
    Call("PATCH", <<"/">> \o S_world \o <<"/">> \o world_id, Nil, Nil, Nil)

----------------------------------------------------------------------------
(* WorldAnvilClient._request                                               *)

\* the write verbs, PATCH forgotten
WriteMethods_NoPatch == {"POST", "PUT", "DELETE"}

WriteMethods == {"POST", "PATCH", "PUT", "DELETE"}

\* a cache test that forgets the verb
UsesCache_AnyVerb(c) == c.cache_key # Nil /\ The(c.cache_key) # <<>>

\* method == "GET" and cache_key: None and "" are both falsy
UsesCache(c) ==
    c.method = "GET" /\ c.cache_key # Nil /\ The(c.cache_key) # <<>>

\* path.split("/")[1] if "/" in path else ""
\* a resource type that takes a path without separator for its own segment
ResourceType_Whole(path) == IF InStr("/", path) THEN Split(path, "/")[2] ELSE path

ResourceType(path) == IF InStr("/", path) THEN Split(path, "/")[2] ELSE <<>>

\* f".*{resource_type}.*"
InvalidationPattern(rt) == <<".", "*">> \o rt \o <<".", "*">>

RECURSIVE Pow2(_)
Pow2(n) == IF n = 0 THEN 1 ELSE 2 * Pow2(n - 1)

\* Python floats are binary floating-point numbers whose arithmetic rounds
\* to the nearest representable value, ties to even (53 significant bits).
\* The model keeps the rounding rule with a significand of MantissaBits
\* bits, and writes every number as a multiple of 1 / Second.
MantissaBits == 8

Second == Pow2(2 * MantissaBits + 4)

RECURSIVE FloorLog2(_)
FloorLog2(x) == IF x < 2 THEN 0 ELSE 1 + FloorLog2(x \div 2)

\* the float nearest to x
Float(x) ==
    IF FloorLog2(x) < MantissaBits THEN x
    ELSE LET q == Pow2(FloorLog2(x) - MantissaBits + 1)
             lo == (x \div q) * q
             rest == x - lo
         IN IF 2 * rest < q THEN lo
            ELSE IF 2 * rest > q THEN lo + q
            ELSE IF (x \div q) % 2 = 0 THEN lo ELSE lo + q

\* the literal 0.1
Tenth == Float(Second \div 10)

\* random.random() returns n / 2**MantissaBits, 0 <= n < 2**MantissaBits
RandomValues == 0..(Pow2(MantissaBits) - 1)

\* random.random() * 0.1, for random.random() = n / 2**MantissaBits
Jitter(n) == Float((n * Tenth) \div Pow2(MantissaBits))

\* a backoff that grows by a fixed step
Backoff_Linear(attempt, u) == Float(2 * attempt * Second + Jitter(u))

\* (2**attempt) + (random.random() * 0.1), for random.random() =
\* u / 2**MantissaBits
Backoff(attempt, u) == Float(Pow2(attempt) * Second + Jitter(u))

\* a retry that never sleeps
AttemptsRemain_Never(attempt) == FALSE

\* a backoff test that also sleeps after the last attempt
AttemptsRemain_Always(attempt) == attempt < max_retries

\* attempt < self.max_retries - 1
AttemptsRemain(attempt) == attempt < max_retries - 1

\* a loop that takes one turn too many
InRange_OneMore(attempt) == attempt <= max_retries

\* for attempt in range(self.max_retries)
InRange(attempt) == 0 <= attempt /\ attempt < max_retries

\* the response body of a success: the resource at version ver
Body(success, ver) == [json |-> "dict", success |-> success, ver |-> ver]

\* a pipeline that never looks at the success flag
SuccessFlagFalse_Never(data) == FALSE

\* data.get("success", True) is falsy
SuccessFlagFalse(data) == data # None /\ data.json = "dict" /\ data.success = "false"

Idle == [pc |-> "idle"]

\* a request that returned or raised; at is the time it did and failed
\* the number of its attempts that met a transport failure (history)
Done(c, how, raised, result, net, sleeps, failed, detail) ==
    [pc |-> "done", call |-> c, how |-> how, raised |-> raised,
     result |-> result, net |-> net, sleeps |-> sleeps, failed |-> failed,
     detail |-> detail, at |-> now]

InFlight(pc, c, attempt, net, sleeps, last_error) ==
    [pc |-> pc, call |-> c, attempt |-> attempt, net |-> net,
     sleeps |-> sleeps, last_error |-> last_error]

\* history: what the latest write under the request's cache key promises
\* when the request is made
NoPrior == [live |-> FALSE, value |-> None]

Prior(c) ==
    IF c.cache_key = Nil THEN NoPrior
    ELSE LET w == written[The(c.cache_key)] IN
         IF w # None /\ now < w.until THEN [live |-> TRUE, value |-> w.value]
         ELSE NoPrior

HTTP_STATUS_UNAUTHORIZED == 401
HTTP_STATUS_FORBIDDEN == 403
HTTP_STATUS_NOT_FOUND == 404
HTTP_STATUS_TOO_MANY_REQUESTS == 429
HTTP_STATUS_CLIENT_ERROR == 400
HTTP_STATUS_SERVER_ERROR == 500
DEFAULT_RETRY_AFTER == 60

\* int(s) for a string of decimal digits; anything else raises ValueError
RECURSIVE IntOfDigits(_, _)
IntOfDigits(s, acc) ==
    IF s = <<>> THEN acc
    ELSE IF \E d \in 1..10 : Digits[d] = Head(s)
         THEN IntOfDigits(Tail(s),
                          10 * acc + ((CHOOSE d \in 1..10 : Digits[d] = Head(s)) - 1))
         ELSE -1

ParseInt(s) == IF s = <<>> THEN -1 ELSE IntOfDigits(s, 0)

\* an if-chain that tests the ranges before the single statuses
Classify_RangesFirst(status) ==
    IF status >= HTTP_STATUS_SERVER_ERROR THEN "ApiError"
    ELSE IF status >= HTTP_STATUS_CLIENT_ERROR THEN "ApiError"
    ELSE Ok

\* the if-chain over response.status_code
Classify(status) ==
    IF status = HTTP_STATUS_UNAUTHORIZED THEN "Auth"
    ELSE IF status = HTTP_STATUS_FORBIDDEN THEN "Auth"
    ELSE IF status = HTTP_STATUS_NOT_FOUND THEN "NotFound"
    ELSE IF status = HTTP_STATUS_TOO_MANY_REQUESTS THEN "RateLimit"
    ELSE IF status >= HTTP_STATUS_SERVER_ERROR THEN "ApiError"
    ELSE IF status >= HTTP_STATUS_CLIENT_ERROR THEN "ApiError"
    ELSE Ok

\* a retry_after that is always the default
RetryAfter_Default(header) == DEFAULT_RETRY_AFTER

\* int(response.headers.get("Retry-After", 60))
RetryAfter(header) ==
    IF header = Nil THEN DEFAULT_RETRY_AFTER ELSE ParseInt(The(header))

NoDetail == [status_code |-> Nil, retry_after |-> Nil]

\* cache_ttl if cache_ttl is not None else self.default_cache_ttl
RequestTtl(c) == IF c.cache_ttl # Nil THEN The(c.cache_ttl) ELSE default_ttl

\* lines 195-208: the cache lookup, then the check that the session is open,
\* then the first turn of the retry loop; everything up to the first await
Begin(c) ==
    LET r == IF UsesCache(c) THEN cache_get(cache, The(c.cache_key), now)
             ELSE [cache |-> cache, ret |-> None]
    IN [cache |-> r.cache,
        rq |-> IF r.ret # None
               THEN Done(c, "cache", Ok, r.ret, 0, <<>>, 0, NoDetail)
               ELSE IF ~client_open
               THEN Done(c, "none", "NotInitialized", None, 0, <<>>, 0, NoDetail)
               ELSE IF ~InRange(0)
               THEN Done(c, "none", "Exhausted", None, 0, <<>>, 0,
                         [status_code |-> Nil, retry_after |-> Nil,
                          attempts |-> max_retries, last_error |-> "none"])
               ELSE InFlight("net", c, 0, 1, <<>>, "none")]

\* lines 262-290: a response whose status is no error
Succeed(c, o) ==
    LET data == o.body
        rt == ResourceType(c.path)
        put == IF UsesCache(c)
               THEN cache_set(cache, The(c.cache_key), data, Some(RequestTtl(c)), now)
               ELSE [cache |-> cache, raised |-> Ok]
        inv == IF c.method \in WriteMethods /\ rt # <<>>
               THEN cache_invalidate_pattern(put.cache, InvalidationPattern(rt))
               ELSE [cache |-> put.cache, ret |-> 0, raised |-> Ok]
        code == [status_code |-> Some(o.status), retry_after |-> Nil]
    IN IF data # None /\ data.json = "invalid"
       THEN [cache |-> cache,
             rq |-> Done(c, "network", "JSONDecodeError", None, rq.net, rq.sleeps, rq.attempt, NoDetail)]
       ELSE IF SuccessFlagFalse(data)
       THEN [cache |-> cache,
             rq |-> Done(c, "network", "ApiError", None, rq.net, rq.sleeps, rq.attempt, code)]
       ELSE IF put.raised # Ok
       THEN [cache |-> put.cache,
             rq |-> Done(c, "network", put.raised, None, rq.net, rq.sleeps, rq.attempt, NoDetail)]
       ELSE IF inv.raised # Ok
       THEN [cache |-> inv.cache,
             rq |-> Done(c, "network", inv.raised, None, rq.net, rq.sleeps, rq.attempt, NoDetail)]
       ELSE [cache |-> inv.cache,
             rq |-> Done(c, "network", Ok, data, rq.net, rq.sleeps, rq.attempt, NoDetail)]

\* lines 220-260: a response whose status is an error
Fail(c, o) ==
    LET kind == Classify(o.status)
        ra == RetryAfter(o.retry_after)
    IN IF kind = "RateLimit"
       THEN IF ra < 0
            THEN Done(c, "network", "ValueError", None, rq.net, rq.sleeps, rq.attempt, NoDetail)
            ELSE Done(c, "network", kind, None, rq.net, rq.sleeps, rq.attempt,
                      [status_code |-> Nil, retry_after |-> Some(ra)])
       ELSE IF kind = "ApiError"
       THEN Done(c, "network", kind, None, rq.net, rq.sleeps, rq.attempt,
                 [status_code |-> Some(o.status), retry_after |-> Nil])
       ELSE Done(c, "network", kind, None, rq.net, rq.sleeps, rq.attempt, NoDetail)

\* lines 306-308: the loop is over; failed attempts met a transport failure
Exhausted(c, net, sleeps, failed, err) ==
    Done(c, "network", "Exhausted", None, net, sleeps, failed,
         [status_code |-> Nil, retry_after |-> Nil, attempts |-> max_retries,
          last_error |-> err])

\* the turn of the loop after the one whose attempt met transport failure err
NextTurn(r, sleeps, err) ==
    IF InRange(r.attempt + 1)
    THEN InFlight("net", r.call, r.attempt + 1, r.net + 1, sleeps, err)
    ELSE Exhausted(r.call, r.net, sleeps, r.attempt + 1, err)

\* a cancellation that the retry loop takes for a transport failure
Cancelled_Caught(r) ==
    IF r.pc = "net" /\ AttemptsRemain(r.attempt)
    THEN InFlight("sleep", r.call, r.attempt, r.net, r.sleeps, "cancelled")
    ELSE NextTurn(r, r.sleeps, "cancelled")

\* the caller cancels the task while it is suspended at line 213 (await
\* self._client.request) or at lines 297, 304 (await asyncio.sleep):
\* asyncio.CancelledError is raised there; it is a BaseException and no
\* httpx error, so neither except clause takes it and it leaves _request
Cancelled(r) ==
    Done(r.call, "network", "CancelledError", None, r.net, r.sleeps, r.attempt,
         NoDetail)

----------------------------------------------------------------------------
(* The pipeline driven by one caller: requests one after the other, each   *)
(* suspended while its network attempt or its backoff sleep is outstanding *)

MaxVersion == 1

\* InMemoryCache(default_ttl=cache_ttl, max_entries=1000)
CACHE_MAX_ENTRIES == 1000

KeysOf(calls) == {The(c.cache_key) : c \in {x \in calls : x.cache_key # Nil}}

Response(status, body, retry_after) ==
    [kind |-> "response", status |-> status, body |-> body,
     retry_after |-> retry_after]

Timeout == [kind |-> "timeout"]

RequestError == [kind |-> "request_error"]

\* what the remote service answers on success: a write is applied by the
\* service when it answers with a success, and a read shows the resource
SuccessResponses(c, bodies) ==
    LET ver == IF c.method \in WriteMethods THEN srv + 1 ELSE srv
    IN IF ver > MaxVersion THEN {}
       ELSE {Response(200, IF b = "null" THEN None ELSE Body(b, ver), Nil) :
                b \in bodies}

\* what the remote service may answer with a status below 400: a body that
\* is no JSON text ("invalid"), the JSON null, or the resource with its
\* success flag
Answers(c, statuses, bodies) ==
    LET ver == IF c.method \in WriteMethods THEN srv + 1 ELSE srv
    IN IF ver > MaxVersion THEN {}
       ELSE {Response(st,
                      IF b = "null" THEN None
                      ELSE IF b = "invalid" THEN [json |-> "invalid"]
                      ELSE Body(b, ver),
                      Nil) : st \in statuses, b \in bodies}

Applied(c, o) ==
    /\ c.method \in WriteMethods
    /\ o.kind = "response" /\ Classify(o.status) = Ok
    /\ o.body # None /\ o.body.json = "dict" /\ o.body.success # "false"

\* history: what a completed request did
Summary(r) ==
    [call |-> r.call, how |-> r.how, raised |-> r.raised, result |-> r.result,
     net |-> r.net, failed |-> r.failed]

Record(h, r) == IF r.pc = "done" THEN Append(h, Summary(r)) ELSE h

CacheHistoryIdle == UNCHANGED <<last, recency>>

\* a client just constructed: no session, an empty cache
InitWith(calls, retries) ==
    /\ cache = <<>>
    /\ max_entries = CACHE_MAX_ENTRIES
    /\ default_ttl = DefaultTtl
    /\ now = 0
    /\ last = NoOp
    /\ recency = <<>>
    /\ written = [k \in KeysOf(calls) |-> None]
    /\ client_open = FALSE
    /\ max_retries \in retries
    /\ srv = 0
    /\ rq = Idle
    /\ prior = NoPrior
    /\ hist = <<>>
    /\ parked = <<>>

\* __aenter__
Enter ==
    /\ rq.pc \in {"idle", "done"}
    /\ ~client_open
    /\ client_open' = TRUE
    /\ UNCHANGED <<cache, max_entries, default_ttl, now, written, max_retries,
                   srv, rq, prior, hist, parked>>
    /\ CacheHistoryIdle

\* __aexit__
Exit ==
    /\ rq.pc \in {"idle", "done"}
    /\ client_open
    /\ client_open' = FALSE
    /\ UNCHANGED <<cache, max_entries, default_ttl, now, written, max_retries,
                   srv, rq, prior, hist, parked>>
    /\ CacheHistoryIdle

\* _request is called
Request(c) ==
    /\ rq.pc \in {"idle", "done"}
    /\ LET b == Begin(c) IN
       /\ cache' = b.cache
       /\ rq' = b.rq
       /\ written' = Forget(written, Removed(cache, b.cache))
    /\ prior' = Prior(c)
    /\ UNCHANGED <<max_entries, default_ttl, now, client_open, max_retries, srv,
                   parked>>
    /\ CacheHistoryIdle

\* a retry that also takes a server error for a transport failure
Retryable_ServerErrors(o) ==
    o.kind # "response" \/ o.status >= HTTP_STATUS_SERVER_ERROR

\* except httpx.TimeoutException, except httpx.RequestError: the outcomes
\* the loop goes on after
Retryable(o) == o.kind # "response"

\* the outstanding network attempt ends with outcome o; u is the value
\* random.random() returns if a backoff follows
Complete(o, u) ==
    /\ rq.pc = "net"
    /\ LET c == rq.call IN
       IF Retryable(o)
       THEN /\ rq' = IF AttemptsRemain(rq.attempt)
                     THEN InFlight("sleep", c, rq.attempt, rq.net,
                                   Append(rq.sleeps, Backoff(rq.attempt, u)),
                                   o.kind)
                     ELSE NextTurn(rq, rq.sleeps, o.kind)
            /\ UNCHANGED <<cache, written, srv>>
       ELSE IF Classify(o.status) # Ok
       THEN /\ rq' = Fail(c, o)
            /\ UNCHANGED <<cache, written, srv>>
       ELSE LET r == Succeed(c, o)
                gone == Removed(cache, r.cache)
            IN /\ cache' = r.cache
               /\ rq' = r.rq
               /\ srv' = IF Applied(c, o) THEN srv + 1 ELSE srv
               /\ written' =
                     IF r.rq.raised = Ok /\ UsesCache(c)
                     THEN [Forget(written, gone) EXCEPT
                              ![The(c.cache_key)] =
                                 [value |-> o.body,
                                  until |-> now + (IF c.cache_ttl = Nil
                                                   THEN default_ttl
                                                   ELSE The(c.cache_ttl))]]
                     ELSE Forget(written, gone)
    /\ UNCHANGED <<max_entries, default_ttl, now, client_open, max_retries, prior,
                   parked>>
    /\ CacheHistoryIdle

\* the backoff sleep is over: the next turn of the loop issues its attempt
Wake ==
    /\ rq.pc = "sleep"
    /\ rq' = NextTurn(rq, rq.sleeps, rq.last_error)
    /\ UNCHANGED <<cache, max_entries, default_ttl, now, written, client_open,
                   max_retries, srv, prior, hist, parked>>
    /\ CacheHistoryIdle

\* the caller abandons the suspended request
Abandon ==
    /\ rq.pc \in {"net", "sleep"}
    /\ rq' = Cancelled(rq)
    /\ UNCHANGED <<cache, max_entries, default_ttl, now, written, client_open,
                   max_retries, srv, prior, parked>>
    /\ CacheHistoryIdle

\* the wall clock moves
Tick ==
    /\ now < MaxTime
    /\ now' = now + 1
    /\ UNCHANGED <<cache, max_entries, default_ttl, written, client_open,
                   max_retries, srv, rq, prior, hist, parked>>
    /\ CacheHistoryIdle

Start(c) == Request(c) /\ UNCHANGED hist

Respond(o, u) == Complete(o, u) /\ UNCHANGED hist

----------------------------------------------------------------------------
(* Spec: reads through the cache                                           *)

W1 == <<"1">>

\* _request called directly: a TTL override of 0, an empty cache key
ReadOverride0 ==
    Call("GET", get_world(W1, 1).path, Nil, get_world(W1, 1).cache_key, Some(0))

ReadEmptyKey == Call("GET", get_identity.path, Nil, Some(<<>>), Nil)

Calls ==
    {get_identity, get_world(W1, 1), update_world(W1), ReadOverride0,
     ReadEmptyKey}

Outcomes(c) ==
    {Timeout, Response(HTTP_STATUS_UNAUTHORIZED, None, Nil)}
    \cup SuccessResponses(c, {"absent", "null"})

Init == InitWith(Calls, 0..(MaxRetries - 1))

Next ==
    \/ Enter
    \/ Exit
    \/ \E c \in Calls : Start(c)
    \/ (rq.pc = "net" /\ \E o \in Outcomes(rq.call) : Respond(o, 0))
    \/ Wake
    \/ Tick

Spec == Init /\ [][Next]_vars

----------------------------------------------------------------------------
(* Properties of the cache engine (CacheSpec)                              *)

LeastRecentlyTouched(c, r) ==
    CHOOSE x \in StoredKeys(c) : \A y \in StoredKeys(c) : r[x] <= r[y]

\* C1: immediately after every set that completes normally the number of
\* stored entries, live or expired, is at most the capacity.
C1_SizeWithinCapacityAfterSet ==
    (last.op = "set" /\ last.raised = Ok) => Len(cache) <= max_entries

C1_Witness ==
    /\ last.op = "set" /\ last.raised = Ok
    /\ last.removed # {} /\ ~last.had
    /\ max_entries = MaxCapacity /\ Len(cache) = max_entries
    /\ \E i \in 1..Len(cache) : now >= cache[i].expires_at

\* C2: a set of a key that is not stored, on a store holding capacity-many
\* entries, removes exactly one entry, the one whose latest set or get-hit
\* is the oldest; every other entry stays as it was.
C2_EvictsLeastRecentlyTouched ==
    [][(/\ last'.op = "set" /\ last'.raised = Ok
        /\ ~Has(cache, last'.key) /\ Len(cache) = max_entries)
       => LET k == last'.key
              victim == LeastRecentlyTouched(cache, recency)
          IN /\ StoredKeys(cache') = (StoredKeys(cache) \ {victim}) \cup {k}
             /\ Len(cache') = Len(cache)
             /\ last'.removed = {victim}
             /\ \A x \in StoredKeys(cache) \ {victim} :
                   EntryOf(cache', x) = EntryOf(cache, x)]_vars

\* capacity 2; set w, set u, get w, set uw: u is gone, w and uw are stored
C2_Witness ==
    /\ max_entries = 2
    /\ last.op = "set" /\ last.key = <<"u", "w">> /\ last.removed = {<<"u">>}
    /\ Len(cache) = 2 /\ cache[1].key = <<"w">> /\ cache[2].key = <<"u", "w">>
    /\ written[<<"w">>].until < written[<<"u", "w">>].until

\* C3: a set of a key that is already stored, live or expired, removes no
\* other entry and keeps the entry count, at capacity or not; it replaces
\* the key's value and expiration and makes it the most recently used.
C3_UpdateNeverEvicts ==
    [][(last'.op = "set" /\ Has(cache, last'.key))
       => LET k == last'.key IN
          /\ last'.raised = Ok
          /\ Len(cache') = Len(cache)
          /\ StoredKeys(cache') = StoredKeys(cache)
          /\ DelKey(cache', k) = DelKey(cache, k)
          /\ cache'[Len(cache')].key = k
          /\ cache'[Len(cache')].value = written'[k].value
          /\ cache'[Len(cache')].expires_at = written'[k].until]_vars

C3_Witness ==
    /\ last.op = "set" /\ last.had /\ last.removed = {}
    /\ max_entries = MaxCapacity /\ Len(cache) = max_entries
    /\ cache[Len(cache)].key = last.key

\* C4: after set(k, v, t) at time s (t the default TTL when omitted), with no
\* later write, invalidation or eviction of k, get(k) before s + t returns v
\* and get(k) at or after s + t is a miss that removes k's entry.
C4_TtlCorrectness ==
    [][(last'.op = "get" /\ written[last'.key] # None)
       => LET k == last'.key
              w == written[k]
          IN IF now < w.until
             THEN last'.ret = w.value /\ Has(cache', k)
             ELSE last'.ret = None /\ ~Has(cache', k) /\ last'.removed = {k}]_vars

C4_Witness ==
    /\ last.op = "get" /\ last.had /\ last.ret = None
    /\ last.removed = {last.key}

----------------------------------------------------------------------------
(* Properties of reads through the cache (Spec)                            *)

\* the TTL a request asks for: its override, or the pipeline's default
AskedTtl(c) == IF c.cache_ttl = Nil THEN default_ttl ELSE The(c.cache_ttl)

KeyedGet(c) == c.method = "GET" /\ c.cache_key # Nil

\* C5: a value returned by a GET without a network call was written to the
\* cache under the request's cache key less than its TTL before the return:
\* no read is served from the cache at or after the expiration instant.
C5_NeverServedPastExpiry ==
    (rq.pc = "done" /\ rq.raised = Ok /\ rq.net = 0)
    => /\ KeyedGet(rq.call)
       /\ rq.how = "cache"
       /\ LET w == written[The(rq.call.cache_key)] IN
          /\ w # None
          /\ rq.result = w.value
          /\ rq.at < w.until

\* served at the last instant before the entry expires
C5_Witness ==
    /\ rq.pc = "done" /\ rq.how = "cache" /\ rq.net = 0
    /\ rq.at > 0
    /\ written[The(rq.call.cache_key)].until = rq.at + 1

\* what an identical request made now would do
Again == Begin(rq.call).rq

\* C8: a GET with a supplied cache key returns the cached value with no
\* network call whenever a live entry is stored under the key; with no
\* prior entry it makes exactly one network call and, on success, stores
\* the response so that an immediately following identical GET makes no
\* network call.  Read in the claim's favour: the session is open, no
\* attempt of the request met a transport failure, and the TTL the request
\* asks for is positive.
C8_ReadThroughCache ==
    (/\ rq.pc = "done" /\ KeyedGet(rq.call)
     /\ rq.raised # "NotInitialized" /\ max_retries >= 1
     /\ rq.failed = 0 /\ AskedTtl(rq.call) > 0)
    => /\ prior.live => (rq.how = "cache" /\ rq.net = 0 /\ rq.result = prior.value)
       /\ ~prior.live => rq.net = 1
       /\ (rq.how = "network" /\ rq.raised = Ok /\ now = rq.at)
             => (Again.pc = "done" /\ Again.net = 0 /\ Again.result = rq.result)

\* what the code does for a non-empty cache key and values other than null:
\* a live entry is returned without a network call; with no live entry the
\* request makes one network call plus one for every transport failure that
\* is retried; a successful response is stored, and an identical GET made
\* before the TTL the request asked for has elapsed makes no network call.
ReadThroughCacheNonNull ==
    (/\ rq.pc = "done" /\ UsesCache(rq.call)
     /\ rq.raised # "NotInitialized" /\ max_retries >= 1)
    => /\ (prior.live /\ prior.value # None)
             => (rq.how = "cache" /\ rq.net = 0 /\ rq.result = prior.value)
       /\ ~prior.live
             => (rq.how = "network" /\ rq.net = Len(rq.sleeps) + 1)
       /\ (/\ rq.how = "network" /\ rq.raised = Ok /\ rq.result # None
           /\ now < rq.at + AskedTtl(rq.call))
             => (Again.pc = "done" /\ Again.how = "cache" /\ Again.net = 0
                 /\ Again.result = rq.result)

----------------------------------------------------------------------------
(* RetrySpec: requests whose attempts meet transport failures              *)

RetryCalls == {get_identity, update_world(W1)}

RetryOutcomes(c) ==
    {Timeout, RequestError, Response(HTTP_STATUS_SERVER_ERROR, None, Nil)}
    \cup SuccessResponses(c, {"absent"})

\* random.random() at its least, in the middle and at its greatest
RetryRandoms == {0, Pow2(MantissaBits - 1), Pow2(MantissaBits) - 1}

RetryInit == InitWith(RetryCalls, 0..MaxRetries)

\* the outstanding attempt ends: each attempt has a timeout
Attempt ==
    /\ rq.pc = "net"
    /\ \E o \in RetryOutcomes(rq.call) : \E u \in RetryRandoms : Respond(o, u)

RetryNext ==
    \/ Enter
    \/ \E c \in RetryCalls : Start(c)
    \/ Attempt
    \/ Wake

\* an attempt ends within its timeout and a sleep ends
RetrySpec ==
    RetryInit /\ [][RetryNext]_vars /\ WF_vars(Attempt) /\ WF_vars(Wake)

Outstanding == rq.pc \in {"net", "sleep"}

\* every attempt of the finished request met a transport failure
AllAttemptsFailed ==
    /\ rq.pc = "done" /\ rq.how # "cache" /\ rq.raised # "NotInitialized"
    /\ rq.failed = rq.net

\* C9: with max_retries = N >= 0, a request whose every network attempt
\* ends in a transport failure (timeout or connection failure alike) ends,
\* raising 'Request failed after N attempts', after exactly N attempts; no
\* request makes more than N attempts, and every request ends.
C9_ExhaustsAfterNAttempts ==
    /\ [](AllAttemptsFailed
            => /\ rq.raised = "Exhausted"
               /\ rq.detail.attempts = max_retries
               /\ rq.net = max_retries)
    /\ [](rq.pc # "idle" => rq.net <= max_retries)
    /\ (Outstanding ~> rq.pc = "done")

C9_Witness ==
    /\ AllAttemptsFailed
    /\ max_retries = MaxRetries /\ rq.net = MaxRetries
    /\ rq.raised = "Exhausted" /\ rq.detail.last_error = "request_error"

SleepsOf(r) == IF r.pc = "idle" THEN <<>> ELSE r.sleeps

StrictlyIncreasing(q) == \A i, j \in 1..Len(q) : i < j => q[i] < q[j]

\* the sleeps of a request: one after every failed attempt but the last
SleepCount ==
    /\ Len(SleepsOf(rq)) <= (IF max_retries >= 1 THEN max_retries - 1 ELSE 0)
    /\ (AllAttemptsFailed /\ max_retries >= 1)
          => Len(rq.sleeps) = max_retries - 1
    /\ rq.pc = "done" => Len(rq.sleeps) <= rq.failed

\* C10 as stated: the sleep after a transport failure on attempt i (from 0,
\* i < N - 1) lasts at least 2^i seconds and less than 2^i + 0.1 seconds,
\* the delays of a request are strictly increasing, and there is no sleep
\* after the final attempt (N - 1 sleeps when all N attempts fail).
C10_BackoffBelowNextTenth ==
    /\ \A i \in 1..Len(SleepsOf(rq)) :
          /\ rq.sleeps[i] >= Pow2(i - 1) * Second
          /\ 10 * rq.sleeps[i] < 10 * Pow2(i - 1) * Second + Second
    /\ StrictlyIncreasing(SleepsOf(rq))
    /\ SleepCount

\* C10, amended: the sleep after a transport failure on attempt i lasts at
\* least 2^i seconds and at most the floating-point sum 2^i + 0.1, which the
\* rounding of the addition lets it reach; the delays of a request are
\* strictly increasing, and there is no sleep after the final attempt.
C10_BackoffBounds ==
    /\ \A i \in 1..Len(SleepsOf(rq)) :
          /\ rq.sleeps[i] >= Pow2(i - 1) * Second
          /\ rq.sleeps[i] <= Float(Pow2(i - 1) * Second + Tenth)
    /\ StrictlyIncreasing(SleepsOf(rq))
    /\ SleepCount

\* all attempts failed, the jitter of the first sleep the largest there is
C10_Witness ==
    /\ AllAttemptsFailed /\ max_retries = MaxRetries
    /\ Len(rq.sleeps) = MaxRetries - 1
    /\ rq.sleeps[1] = Float(Second + Tenth)
    /\ rq.sleeps[2] = 2 * Second

----------------------------------------------------------------------------
(* PathSpec: writes whose path names the resource type in other ways       *)

\* _request called directly with a path whose first segment holds a
\* character the pattern language gives a meaning to
WriteDotted == Call("DELETE", <<"/", "w", ".", "r", "l", "d", "/", "1">>, Nil, Nil, Nil)

WriteStarred == Call("POST", <<"/", "w", "o", "r", "l", "d", "s", "*", "/", "1">>, Nil, Nil, Nil)

PathCalls ==
    {get_identity, get_world(W1, 1), list_worlds(1), update_world(W1),
     WriteDotted, WriteStarred}

PathOutcomes(c) ==
    {Response(HTTP_STATUS_NOT_FOUND, None, Nil)}
    \cup SuccessResponses(c, {"absent"})

PathInit == InitWith(PathCalls, {1})

PathNext ==
    \/ Enter
    \/ \E c \in PathCalls : Start(c)
    \/ (rq.pc = "net" /\ \E o \in PathOutcomes(rq.call) : Respond(o, 0))
    \/ Tick

PathSpec == PathInit /\ [][PathNext]_vars

\* the segment following the leading separator
FirstSegment(path) == Split(Tail(path), "/")[1]

\* C7: after a successful mutating call whose path has first segment R, the
\* segment following the leading separator, every entry whose key contains
\* R has been removed and every entry whose key does not contain R is still
\* stored as it was.
C7_InvalidatesKeysContainingSegment ==
    [][(/\ rq.pc = "net" /\ rq'.pc = "done" /\ rq'.raised = Ok
        /\ rq.call.method \in WriteMethods
        /\ Head(rq.call.path) = "/" /\ FirstSegment(rq.call.path) # <<>>)
       => LET R == FirstSegment(rq.call.path) IN
          /\ \A k \in StoredKeys(cache) : Contains(k, R) => ~Has(cache', k)
          /\ \A k \in StoredKeys(cache) :
                ~Contains(k, R) => (Has(cache', k) /\ EntryOf(cache', k) = EntryOf(cache, k))]_vars

----------------------------------------------------------------------------
(* WriteReadSpec: a caller's first requests on a new client, recorded      *)

WriteReadCalls == {get_world(W1, 1), list_worlds(1), update_world(W1)}

WriteReadOutcomes(c) == {Timeout} \cup SuccessResponses(c, {"absent"})

WriteReadInit == InitWith(WriteReadCalls, 1..(MaxRetries - 1))

Issue(c) ==
    /\ Len(hist) < MaxRequests
    /\ Request(c)
    /\ hist' = Record(hist, rq')

Answer(o, u) ==
    /\ Complete(o, u)
    /\ hist' = Record(hist, rq')

WriteReadNext ==
    \/ Enter
    \/ \E c \in WriteReadCalls : Issue(c)
    \/ (rq.pc = "net" /\ \E o \in WriteReadOutcomes(rq.call) : Answer(o, 0))
    \/ Wake
    \/ Tick

WriteReadSpec == WriteReadInit /\ [][WriteReadNext]_vars

\* requests i, i + 1, i + 2 were a read, a write to the resource it read and
\* the same read again, each of them successful
ReadWriteRead(i) ==
    /\ i + 2 <= Len(hist)
    /\ \A j \in i..(i + 2) : hist[j].raised = Ok
    /\ hist[i].call.method = "GET" /\ hist[i].call.cache_key # Nil
    /\ hist[i + 1].call = update_world(W1)
    /\ hist[i + 2].call = hist[i].call

\* the write was the latest request and it succeeded
JustWritten ==
    /\ rq.pc = "done" /\ rq.raised = Ok /\ rq.call.method \in WriteMethods

----------------------------------------------------------------------------
(* Properties of invalidate_pattern and stats (CacheSpec)                  *)

\* what each well-formed pattern of CachePatterns asks for, said without the
\* pattern language: "w" and "u.*" a key that starts with the letter,
\* ".*w.*" a key that holds it anywhere
Asks(p, k) ==
    IF p = <<"w">> THEN IsPrefix(<<"w">>, k)
    ELSE IF p = <<"u", ".", "*">> THEN IsPrefix(<<"u">>, k)
    ELSE IF p = <<".", "*", "w", ".", "*">> THEN Contains(k, <<"w">>)
    ELSE FALSE

WellFormedPatterns == {<<"w">>, <<"u", ".", "*">>, <<".", "*", "w", ".", "*">>}

MalformedPatterns == {<<"(">>, <<"w", "*", "*">>}

\* C17: invalidate_pattern(p) removes exactly the stored keys that p matches
\* from the start of the key (a pattern found only in the middle of a key
\* does not remove it), returns the number of keys removed and leaves every
\* other entry stored as it was, in the same order.
C17_PatternRemovesMatchesFromStart ==
    [][(last'.op = "invalidate_pattern" /\ last'.key \in WellFormedPatterns)
       => LET p == last'.key
              hit == {k \in StoredKeys(cache) : Asks(p, k)}
          IN /\ last'.raised = Ok
             /\ StoredKeys(cache') = StoredKeys(cache) \ hit
             /\ last'.ret = Cardinality(hit)
             /\ cache' = SelectSeq(cache, LAMBDA e : e.key \notin hit)]_vars

\* pattern "w" on a store holding "w" and "uw": "w" goes, "uw" stays
C17_Witness ==
    /\ last.op = "invalidate_pattern" /\ last.key = <<"w">>
    /\ last.ret = 1 /\ last.removed = {<<"w">>}
    /\ Has(cache, <<"u", "w">>)

\* C18: invalidate_pattern with a pattern that is not a well-formed regular
\* expression raises the invalid-pattern failure and removes nothing: the
\* stored entries and their recency order are as before the call.
C18_MalformedPatternRaises ==
    [][(last'.op = "invalidate_pattern" /\ last'.key \in MalformedPatterns)
       => /\ last'.raised = ReError
          /\ cache' = cache
          /\ recency' = recency]_vars

C18_Witness ==
    /\ last.op = "invalidate_pattern" /\ last.key = <<"w", "*", "*">>
    /\ last.raised = ReError
    /\ Len(cache) = 2 /\ Has(cache, <<"w">>)

\* the stored keys whose latest set has run out at time t
RunOut(t) == {k \in StoredKeys(cache) : written[k].until <= t}

\* C19: stats() reports current = the number of stored entries, expired ones
\* included, expired = the number of stored entries whose expiration is at
\* or before the call time, max_entries = the capacity; it removes no entry
\* and keeps the recency order, and 0 <= expired <= current.
C19_StatsAccounting ==
    [][last'.op = "stats"
       => /\ last'.ret.current = Cardinality(StoredKeys(cache))
          /\ last'.ret.expired = Cardinality(RunOut(now))
          /\ last'.ret.max_entries = max_entries
          /\ 0 <= last'.ret.expired /\ last'.ret.expired <= last'.ret.current
          /\ cache' = cache /\ recency' = recency]_vars

\* two entries stored, one of them expiring at the very instant of the call
C19_Witness ==
    /\ last.op = "stats"
    /\ last.ret.current = 2 /\ last.ret.expired = 1
    /\ \E i \in 1..Len(cache) : cache[i].expires_at = now
    /\ \E i \in 1..Len(cache) : cache[i].expires_at > now

----------------------------------------------------------------------------
(* FailureSpec: every outcome an attempt can have, on any attempt          *)

\* _request called directly: a write that is given a cache key
WriteKeyed ==
    Call("POST", update_world(W1).path, Nil, get_identity.cache_key, Nil)

FailureCalls == {get_identity, get_world(W1, 1), update_world(W1), WriteKeyed}

ErrorStatuses == {400, 401, 403, 404, 418, 500, 503}

SuccessStatuses == {200, 399}

\* Retry-After: 7, Retry-After: 120
RetryAfterHeaders == {Nil, Some(<<"7">>), Some(<<"1", "2", "0">>)}

FailureOutcomes(c) ==
    {Timeout, RequestError}
    \cup {Response(st, None, Nil) : st \in ErrorStatuses}
    \cup {Response(429, None, h) : h \in RetryAfterHeaders}
    \cup Answers(c, SuccessStatuses, {"absent", "true", "false", "invalid"})

FailureInit == InitWith(FailureCalls, 1..MaxRetries)

\* _request is called: no attempt has an outcome yet
Launch(c) ==
    /\ Request(c)
    /\ hist' = <<>>

\* the outstanding attempt ends with outcome o
Observe(o) ==
    /\ Complete(o, 0)
    /\ hist' = Append(hist, o)

FailureNext ==
    \/ Enter
    \/ \E c \in FailureCalls : Launch(c)
    \/ (rq.pc = "net" /\ \E o \in FailureOutcomes(rq.call) : Observe(o))
    \/ Wake

FailureSpec == FailureInit /\ [][FailureNext]_vars

\* the outcome of the latest attempt of rq
LastOutcome == hist[Len(hist)]

Answered == rq.pc = "done" /\ hist # <<>> /\ LastOutcome.kind = "response"

\* the failure an outcome is classified as, "none" for the others
FailureClass(o) ==
    IF o.kind # "response" THEN "none"
    ELSE IF o.status \in {401, 403} THEN "Auth"
    ELSE IF o.status = 404 THEN "NotFound"
    ELSE IF o.status = 429 THEN "RateLimit"
    ELSE IF o.status >= 400 THEN "ApiError"
    ELSE IF o.body # None /\ o.body.json = "dict" /\ o.body.success = "false"
    THEN "ApiError"
    ELSE "none"

\* C11: whenever the outcome of a network attempt is classified as Auth,
\* NotFound, RateLimit, ApiError or the success = false failure, the request
\* raises that failure at once, on whichever attempt it happens: no attempt
\* and no backoff sleep follows it.
C11_ClassifiedFailuresShortCircuit ==
    \A i \in 1..Len(hist) :
       FailureClass(hist[i]) # "none"
       => /\ i = Len(hist)
          /\ rq.pc = "done"
          /\ rq.raised = FailureClass(hist[i])
          /\ rq.net = i
          /\ Len(rq.sleeps) = i - 1

\* a 404 on the last attempt the budget allows, after two timeouts
C11_Witness ==
    /\ Answered /\ rq.raised = "NotFound"
    /\ max_retries = MaxRetries /\ rq.net = MaxRetries
    /\ Len(rq.sleeps) = MaxRetries - 1

\* C12: the status of a response is classified by a total function: 401
\* and 403 give Auth, 404 NotFound, 429 RateLimit, every status from 500 up
\* ApiError with that status code, every other status from 400 up ApiError
\* with that status code; a status below 400 is a success of the transport
\* and its body is parsed.
C12_StatusClassification ==
    /\ rq.pc \in {"net", "sleep"}
          => \A i \in 1..Len(hist) : hist[i].kind # "response"
    /\ Answered
          => LET st == LastOutcome.status
                 body == LastOutcome.body
             IN IF st = 401 \/ st = 403 THEN rq.raised = "Auth"
                ELSE IF st = 404 THEN rq.raised = "NotFound"
                ELSE IF st = 429 THEN rq.raised = "RateLimit"
                ELSE IF st >= 400
                THEN rq.raised = "ApiError" /\ rq.detail.status_code = {st}
                ELSE IF body = [json |-> "invalid"]
                THEN rq.raised = "JSONDecodeError"
                ELSE IF body.success = "false"
                THEN rq.raised = "ApiError" /\ rq.detail.status_code = {st}
                ELSE rq.raised = Ok /\ rq.result = body

\* a 403 on the second attempt
C12_Witness ==
    /\ Answered /\ LastOutcome.status = 403 /\ rq.raised = "Auth"
    /\ rq.net = 2

\* the number a Retry-After header of RetryAfterHeaders spells
Spelled(h) == IF h = <<"7">> THEN 7 ELSE 120

\* C13: every 429 response gives a RateLimit failure whose retry_after is
\* the whole number of seconds of the Retry-After header when the response
\* has one, and 60 when it has none.
C13_RetryAfter ==
    (Answered /\ LastOutcome.status = 429)
    => /\ rq.raised = "RateLimit"
       /\ rq.detail.retry_after =
             {IF LastOutcome.retry_after = Nil THEN 60
              ELSE Spelled(The(LastOutcome.retry_after))}

C13_Witness ==
    /\ Answered /\ LastOutcome.status = 429
    /\ LastOutcome.retry_after = Some(<<"1", "2", "0">>)
    /\ rq.detail.retry_after = {120}

\* the outstanding attempt of rq is answered with a success status and a
\* body whose success flag is flag
AnsweredWithFlag(flag) ==
    /\ rq.pc = "net" /\ rq'.pc = "done"
    /\ hist' # <<>> /\ hist'[Len(hist')].kind = "response"
    /\ hist'[Len(hist')].status < 400
    /\ hist'[Len(hist')].body # None
    /\ hist'[Len(hist')].body.json = "dict"
    /\ hist'[Len(hist')].body.success = flag

\* C14: a response with a success status whose body says success = false
\* gives an ApiError: no attempt follows, nothing is written to the cache
\* and nothing is invalidated; a body without the flag is a success.
C14_SuccessFlag ==
    [][/\ AnsweredWithFlag("false")
          => /\ rq'.raised = "ApiError"
             /\ rq'.net = rq.net /\ rq'.sleeps = rq.sleeps
             /\ cache' = cache
       /\ AnsweredWithFlag("absent")
          => /\ rq'.raised = Ok
             /\ rq'.result = hist'[Len(hist')].body]_vars

\* update_world answered success = false while a world is cached
C14_Witness ==
    /\ Answered /\ rq.call = update_world(W1)
    /\ LastOutcome.status = 200
    /\ LastOutcome.body = Body("false", 1)
    /\ rq.raised = "ApiError"
    /\ Has(cache, The(get_world(W1, 1).cache_key))

Taxonomy == {"Auth", "NotFound", "RateLimit", "ApiError", "Exhausted"}

\* C15: every call of _request on an open session ends in one of two ways:
\* it returns the parsed body of a successful response, from the network or
\* from a live cache entry, or it raises one of Auth, NotFound, RateLimit,
\* ApiError and the terminal failure of the exhausted retries; no failure
\* of an attempt becomes an empty or default value.
C15_ReturnsBodyOrTypedFailure ==
    (rq.pc = "done" /\ rq.raised # "NotInitialized")
    => /\ rq.raised \in {Ok} \cup Taxonomy
       /\ rq.raised = Ok
             => \/ rq.how = "cache" /\ prior.live /\ rq.result = prior.value
                \/ /\ rq.how = "network" /\ Answered
                   /\ FailureClass(LastOutcome) = "none"
                   /\ rq.result = LastOutcome.body

\* C16: a request whose verb is not GET never reads the cache and never
\* writes a response into it, also when it is given a cache key under which
\* a live entry is stored: calling it leaves the store as it is, its answer
\* comes from the network, and what is stored afterwards was stored before,
\* unchanged and in the same order.
C16_WritesBypassCache ==
    [][(rq' # rq /\ rq'.pc # "idle" /\ rq'.call.method # "GET")
       => /\ rq.pc \in {"idle", "done"} => cache' = cache
          /\ rq'.pc = "net" => rq'.net >= 1
          /\ (rq'.pc = "done" /\ rq'.raised # "NotInitialized")
                => rq'.how = "network" /\ rq'.net >= 1
          /\ cache' = SelectSeq(cache, LAMBDA e : Has(cache', e.key))]_vars

\* a POST given the key "identity" while the identity is cached and live
C16_Witness ==
    /\ rq.pc = "done" /\ rq.call = WriteKeyed /\ rq.raised = Ok
    /\ prior.live /\ rq.result # prior.value
    /\ rq.how = "network" /\ rq.net = 1
    /\ Has(cache, S_identity)
    /\ EntryOf(cache, S_identity).value = prior.value

\* C20: the attempts of one request come one after the other: an attempt
\* after the first is issued only when the one before it has ended in a
\* transport failure and the backoff sleep that follows it is over, and a
\* request never has two attempts outstanding.
C20_AttemptsAreSequential ==
    /\ [](rq.pc # "idle"
            => rq.net - Len(hist) = (IF rq.pc = "net" THEN 1 ELSE 0))
    /\ [][(rq' # rq /\ rq'.pc = "net" /\ rq'.attempt > 0)
          => /\ rq.pc = "sleep"
             /\ rq'.call = rq.call
             /\ rq'.attempt = rq.attempt + 1
             /\ Len(hist) = rq'.attempt
             /\ FailureClass(LastOutcome) = "none"
             /\ LastOutcome.kind # "response"
             /\ Len(rq.sleeps) = rq'.attempt]_vars

\* the third attempt of a request is outstanding
C20_Witness ==
    /\ rq.pc = "net" /\ rq.attempt = 2 /\ rq.net = 3
    /\ Len(hist) = 2 /\ Len(rq.sleeps) = 2

----------------------------------------------------------------------------
(* AbandonSpec: requests that the caller may abandon while they wait       *)

AbandonCalls == {get_world(W1, 1), update_world(W1)}

AbandonOutcomes(c) ==
    {Timeout, Response(HTTP_STATUS_NOT_FOUND, None, Nil)}
    \cup SuccessResponses(c, {"absent"})

AbandonInit == InitWith(AbandonCalls, 1..MaxRetries)

\* _request is called: nothing has happened to the request yet
Submit(c) ==
    /\ Request(c)
    /\ hist' = <<>>

\* the outstanding attempt ends with outcome o
Settle(o) ==
    /\ Complete(o, 0)
    /\ hist' = Append(hist, [kind |-> "outcome"])

\* the request is abandoned; history: what the cache held and what the
\* request had done when it was
Cancel ==
    /\ Abandon
    /\ hist' = Append(hist, [kind |-> "cancelled", cache |-> cache,
                             net |-> rq.net, sleeps |-> rq.sleeps,
                             pc |-> rq.pc])

AbandonNext ==
    \/ Enter
    \/ \E c \in AbandonCalls : Submit(c)
    \/ (rq.pc = "net" /\ \E o \in AbandonOutcomes(rq.call) : Settle(o))
    \/ Wake
    \/ Cancel

AbandonSpec == AbandonInit /\ [][AbandonNext]_vars

\* C21: a request that the caller abandons while it waits for a network
\* attempt or for a backoff sleep ends there: it issues no further network
\* attempt, takes no further sleep, and neither writes to the cache nor
\* invalidates anything in it afterwards.
C21_AbandonedRequestStops ==
    \A i \in 1..Len(hist) :
       hist[i].kind = "cancelled"
       => /\ i = Len(hist)
          /\ rq.pc = "done"
          /\ rq.raised \notin {Ok, "Exhausted"}
          /\ rq.net = hist[i].net
          /\ rq.sleeps = hist[i].sleeps
          /\ cache = hist[i].cache

\* update_world abandoned in its first backoff sleep, a world being cached
C21_Witness ==
    /\ hist # <<>> /\ hist[Len(hist)].kind = "cancelled"
    /\ hist[Len(hist)].pc = "sleep"
    /\ rq.pc = "done" /\ rq.call = update_world(W1) /\ rq.net = 1
    /\ max_retries = MaxRetries
    /\ Has(cache, The(get_world(W1, 1).cache_key))

----------------------------------------------------------------------------
(* SessionSpec: sessions of one client, entered and left in any order; the *)
(* history is the list of session events, an "enter" with the transport    *)
(* (httpx.AsyncClient) it acquired and whether that one has been closed.   *)
(* self._client, when it is not None, is the transport acquired last.      *)

MaxSessions == 2

SessionEnters == {i \in 1..Len(hist) : hist[i].ev = "enter"}

SessionExits == {i \in 1..Len(hist) : hist[i].ev = "exit"}

\* the sessions entered and not yet left
SessionDepth == Cardinality(SessionEnters) - Cardinality(SessionExits)

\* the transport self._client refers to
CurrentTransport == CHOOSE i \in SessionEnters : \A j \in SessionEnters : j <= i

\* __aenter__: a new httpx.AsyncClient is assigned to self._client,
\* whatever self._client holds
Acquire ==
    /\ rq.pc \in {"idle", "done"}
    /\ Cardinality(SessionEnters) < MaxSessions
    /\ client_open' = TRUE
    /\ hist' = Append(hist, [ev |-> "enter", closed |-> FALSE])
    /\ UNCHANGED <<cache, max_entries, default_ttl, now, written, max_retries,
                   srv, rq, prior, parked>>
    /\ CacheHistoryIdle

\* __aexit__, at the end of an async with block of a session entered
\* before, however the block ended: if self._client: aclose(), then None
Release ==
    /\ rq.pc \in {"idle", "done"}
    /\ SessionDepth > 0
    /\ client_open' = FALSE
    /\ hist' = Append(IF client_open
                      THEN [hist EXCEPT ![CurrentTransport].closed = TRUE]
                      ELSE hist,
                      [ev |-> "exit"])
    /\ UNCHANGED <<cache, max_entries, default_ttl, now, written, max_retries,
                   srv, rq, prior, parked>>
    /\ CacheHistoryIdle

SessionCalls == {get_identity}

SessionOutcomes(c) ==
    {Timeout, Response(HTTP_STATUS_UNAUTHORIZED, None, Nil)}
    \cup SuccessResponses(c, {"absent"})

SessionInit == InitWith(SessionCalls, 1..(MaxRetries - 1))

\* the block of the session ends by abandonment in the middle of a retry
Leave == Abandon /\ UNCHANGED hist

SessionNext ==
    \/ Acquire
    \/ Release
    \/ \E c \in SessionCalls : Start(c)
    \/ (rq.pc = "net" /\ \E o \in SessionOutcomes(rq.call) : Respond(o, 0))
    \/ Wake
    \/ Leave

SessionSpec == SessionInit /\ [][SessionNext]_vars

\* C22: the transport is acquired when a session is entered and released
\* when the session ends, on every exit path (normal exit, a failure raised
\* inside the session, abandonment in the middle of a retry): after any
\* sequence of session enters and exits, once the sessions have ended every
\* transport that was acquired has been released.
C22_TransportsReleased ==
    SessionDepth = 0 => \A i \in SessionEnters : hist[i].closed

\* what the code keeps: a session that is entered while no other session of
\* the client is open releases its transport when it ends
SessionsInTurnRelease ==
    (SessionDepth = 0
     /\ \A i \in SessionEnters :
           Cardinality({j \in SessionEnters : j < i})
              = Cardinality({j \in SessionExits : j < i}))
    => \A i \in SessionEnters : hist[i].closed

----------------------------------------------------------------------------
(* Properties of the cache write of a successful read (Spec)               *)

\* a successful response to a GET that was given a cache key arrives
KeyedGetSucceeds ==
    /\ rq.pc = "net" /\ rq'.pc = "done" /\ rq'.raised = Ok
    /\ KeyedGet(rq.call)

\* the entry of the response under the request's key, written now
StoredAsAsked ==
    LET k == The(rq.call.cache_key) IN
    /\ Has(cache', k)
    /\ EntryOf(cache', k).value = rq'.result
    /\ EntryOf(cache', k).expires_at = now + AskedTtl(rq.call)

\* C23: on a successful GET with a cache key the parsed response is stored
\* under that key, expiring at now + the TTL override when one is given, an
\* override of 0 included, and at now + the default TTL of the pipeline
\* when none is given.
C23_StoredWithAskedTtl ==
    [][KeyedGetSucceeds => StoredAsAsked]_vars

\* what the code keeps: the same, for a cache key that is not the empty
\* string
StoredWithAskedTtlNonEmptyKey ==
    [][(KeyedGetSucceeds /\ The(rq.call.cache_key) # <<>>) => StoredAsAsked]_vars

----------------------------------------------------------------------------
(* Properties of the recency order, invalidate and clear (CacheSpec)       *)

\* the stored keys whose entry has not expired
LiveKeys == {k \in StoredKeys(cache) : now < EntryOf(cache, k).expires_at}

\* the stored order is the order of each key's latest get-hit or set,
\* oldest first
RecencyOrdered ==
    /\ \A k \in DOMAIN recency : recency[k] > 0 <=> Has(cache, k)
    /\ \A i \in 1..Len(cache) : recency[cache[i].key] = i

\* C24 as stated: in every reachable state the stored order is the order
\* of each key's latest get-hit or set, oldest first, and the least recently
\* touched live (unexpired) entry is at the head of that order.
C24_HeadIsLeastRecentLive ==
    /\ RecencyOrdered
    /\ LiveKeys # {}
          => /\ cache[1].key \in LiveKeys
             /\ \A k \in LiveKeys : recency[cache[1].key] <= recency[k]

\* C24, amended: in every reachable state the stored order is the order of
\* each key's latest get-hit or set, oldest first; the least recently
\* touched stored entry, expired or not, is at the head of that order, and
\* it is the entry a set that evicts removes.
C24_HeadIsLeastRecentStored ==
    /\ [](/\ RecencyOrdered
          /\ cache # <<>>
                => \A k \in StoredKeys(cache) :
                      recency[cache[1].key] <= recency[k])
    /\ [][(last'.op = "set" /\ last'.removed # {})
          => /\ last'.removed = {cache[1].key}
             /\ \A k \in StoredKeys(cache) : recency[cache[1].key] <= recency[k]
             /\ DelKey(cache', last'.key) = Tail(cache)]_vars

\* a set has evicted a live entry and left an expired one at the head, a
\* live one behind it
C24_Witness ==
    /\ last.op = "set" /\ last.removed # {} /\ max_entries = 2
    /\ Len(cache) = 2
    /\ now >= cache[1].expires_at
    /\ now < cache[2].expires_at

\* C25: invalidate(k) removes k's entry when it is stored and does nothing
\* when it is not; either way every other entry keeps its value, its
\* expiration and its place relative to the others.  clear() leaves no
\* entry, whatever the cache held.
C25_InvalidateAndClearFrame ==
    [][/\ last'.op = "invalidate"
          => LET k == last'.key IN
             /\ last'.raised = Ok
             /\ ~Has(cache', k)
             /\ Len(cache') = Len(cache) - (IF Has(cache, k) THEN 1 ELSE 0)
             /\ ~Has(cache, k) => cache' = cache
             /\ \A i \in 1..Len(cache) :
                   cache[i].key # k
                   => /\ Has(cache', cache[i].key)
                      /\ EntryOf(cache', cache[i].key) = cache[i]
             /\ \A i, j \in 1..Len(cache) :
                   (i < j /\ cache[i].key # k /\ cache[j].key # k)
                   => IndexOf(cache', cache[i].key) < IndexOf(cache', cache[j].key)
       /\ last'.op = "clear" => (Len(cache') = 0 /\ StoredKeys(cache') = {})]_vars

\* invalidate("u") while "u" and "uw" are stored: "uw" stays
C25_Witness ==
    /\ last.op = "invalidate" /\ last.key = <<"u">>
    /\ last.removed = {<<"u">>}
    /\ Has(cache, <<"u", "w">>)

----------------------------------------------------------------------------
(* GranularitySpec: the first request of a caller on a new client, made by *)
(* one of the endpoints that take a granularity; the history is the        *)
(* endpoint that was called and the integer it was given.                  *)

MaxGranularity == 12

GranularityValues == (0 - MaxGranularity)..MaxGranularity

GranularityEndpoints == {"get_current_user", "list_worlds", "get_world"}

EndpointCall(e, g) ==
    IF e = "get_current_user" THEN get_current_user(g)
    ELSE IF e = "list_worlds" THEN list_worlds(g)
    ELSE get_world(W1, g)

GranularityCalls ==
    {EndpointCall(e, g) : e \in GranularityEndpoints, g \in GranularityValues}

GranularityOutcomes(c) == {Timeout} \cup SuccessResponses(c, {"absent"})

GranularityInit == InitWith(GranularityCalls, 1..(MaxRetries - 1))

\* endpoint e is called with granularity g
Ask(e, g) ==
    /\ hist = <<>>
    /\ Request(EndpointCall(e, g))
    /\ hist' = <<[endpoint |-> e, granularity |-> g]>>

GranularityNext ==
    \/ Enter
    \/ \E e \in GranularityEndpoints, g \in GranularityValues : Ask(e, g)
    \/ (rq.pc = "net" /\ \E o \in GranularityOutcomes(rq.call) : Respond(o, 0))
    \/ Wake

GranularitySpec == GranularityInit /\ [][GranularityNext]_vars

\* s is the decimal numeral of the integer g: a minus sign for a negative
\* one, then its digits, the first of them no zero unless it is the only one
IsDecimalOf(s, g) ==
    LET digits == IF g < 0 THEN Tail(s) ELSE s IN
    /\ s # <<>>
    /\ g < 0 <=> Head(s) = "-"
    /\ digits # <<>>
    /\ Len(digits) > 1 => Head(digits) # "0"
    /\ ParseInt(digits) = (IF g < 0 THEN 0 - g ELSE g)

\* C26: every outbound request of get_current_user, list_worlds and
\* get_world, a retried attempt included, carries the query parameter
\* granularity as the decimal string of the integer the caller passed,
\* never as a number, whatever the integer.
C26_GranularityIsDecimalString ==
    (rq.pc = "net" /\ hist # <<>>)
    => /\ rq.call.params # Nil
       /\ DOMAIN The(rq.call.params) = {"granularity"}
       /\ IsDecimalOf(The(rq.call.params).granularity, hist[1].granularity)

\* the second attempt of list_worlds(-12)
C26_Witness ==
    /\ rq.pc = "net" /\ rq.attempt = 1 /\ hist # <<>>
    /\ hist[1].endpoint = "list_worlds"
    /\ hist[1].granularity = 0 - MaxGranularity
    /\ The(rq.call.params).granularity = <<"-">> \o Str(MaxGranularity)

----------------------------------------------------------------------------
(* ToolSpec: the update_world tool (tools/world.py) on top of the client;  *)
(* the history is the latest invocation of the tool: its arguments, the    *)
(* calls it made to the client and what it returned without calling.       *)

\* a dict as a function from its keys; d[k] = v
EmptyDict == [x \in {} |-> x]

DictSet(d, k, v) == [x \in DOMAIN d \cup {k} |-> IF x = k THEN v ELSE d[x]]

NoUpdatesText ==
    "No updates specified. Provide name, description, or genre to update."

\* an updates dict that leaves out the arguments that are falsy
ToolUpdates_Truthy(name, description, genre) ==
    LET given(a) == a # Nil /\ The(a) # <<>>
        u1 == IF given(name) THEN DictSet(EmptyDict, "name", The(name))
              ELSE EmptyDict
        u2 == IF given(description) THEN DictSet(u1, "description", The(description))
              ELSE u1
    IN IF given(genre) THEN DictSet(u2, "genre", The(genre)) ELSE u2

\* updates = {}; if name is not None: updates["name"] = name; ...
ToolUpdates(name, description, genre) ==
    LET u1 == IF name # Nil THEN DictSet(EmptyDict, "name", The(name))
              ELSE EmptyDict
        u2 == IF description # Nil THEN DictSet(u1, "description", The(description))
              ELSE u1
    IN IF genre # Nil THEN DictSet(u2, "genre", The(genre)) ELSE u2

\* arguments of the tool: left out, the empty string, "x"
ToolArgs == {Nil, Some(<<>>), Some(<<"x">>)}

\* how many invocations the history counts
Invocations == IF hist = <<>> THEN 0 ELSE hist[1].n

\* the tool update_world(world_id, name, description, genre) up to its
\* await: it returns the message, or calls client.update_world(world_id,
\* **updates), which is _request("PATCH", f"/world/{world_id}", json=updates);
\* what the request returns or raises is then the tool's to format or to
\* pass on
UpdateWorldTool(world_id, name, description, genre) ==
    LET updates == ToolUpdates(name, description, genre)
        entry == [n |-> Invocations + 1, world_id |-> world_id,
                  args |-> [name |-> name, description |-> description,
                            genre |-> genre]]
    IN /\ rq.pc \in {"idle", "done"}
       /\ Invocations < MaxRequests
       /\ IF DOMAIN updates = {}
          THEN /\ hist' = <<[f \in DOMAIN entry \cup {"calls", "returned"} |->
                               IF f = "calls" THEN <<>>
                               ELSE IF f = "returned" THEN Some(NoUpdatesText)
                               ELSE entry[f]]>>
               /\ UNCHANGED <<cache, max_entries, default_ttl, now, written,
                              client_open, max_retries, srv, rq, prior, parked>>
               /\ CacheHistoryIdle
          ELSE /\ Request(update_world(world_id))
               /\ hist' = <<[f \in DOMAIN entry \cup {"calls", "returned"} |->
                               IF f = "calls"
                               THEN <<[fn |-> "update_world", world_id |-> world_id,
                                       updates |-> updates]>>
                               ELSE IF f = "returned" THEN Nil
                               ELSE entry[f]]>>

ToolCalls == {get_world(W1, 1), update_world(W1)}

ToolOutcomes(c) ==
    {Timeout, Response(HTTP_STATUS_NOT_FOUND, None, Nil)}
    \cup SuccessResponses(c, {"absent"})

ToolInit == InitWith(ToolCalls, 1..(MaxRetries - 1))

ToolNext ==
    \/ Enter
    \/ Start(get_world(W1, 1))
    \/ \E name \in ToolArgs, description \in ToolArgs, genre \in ToolArgs :
          UpdateWorldTool(W1, name, description, genre)
    \/ (rq.pc = "net" /\ \E o \in ToolOutcomes(rq.call) : Respond(o, 0))
    \/ Wake

ToolSpec == ToolInit /\ [][ToolNext]_vars

ToolFields == {"name", "description", "genre"}

\* the fields an invocation was given
Supplied(e) == {f \in ToolFields : e.args[f] # Nil}

\* C27: the update_world tool invoked with none of name, description and
\* genre makes no call to the client, so no network call and no cache
\* invalidation, and returns the "No updates specified" message; invoked
\* with at least one of them it calls the client's update_world once, with
\* exactly the fields it was given.
C27_ToolCallsClientOnlyWithUpdates ==
    [][Invocations' # Invocations
       => LET e == hist'[1] IN
          IF Supplied(e) = {}
          THEN /\ e.calls = <<>>
               /\ e.returned = {NoUpdatesText}
               /\ rq' = rq /\ cache' = cache /\ srv' = srv
          ELSE /\ Len(e.calls) = 1
               /\ e.returned = {}
               /\ e.calls[1].fn = "update_world"
               /\ e.calls[1].world_id = e.world_id
               /\ DOMAIN e.calls[1].updates = Supplied(e)
               /\ \A f \in Supplied(e) : {e.calls[1].updates[f]} = e.args[f]
               /\ rq'.pc # "idle" /\ rq'.call = update_world(e.world_id)
               /\ IF client_open THEN rq'.pc = "net" /\ rq'.net = 1
                  ELSE rq'.pc = "done" /\ rq'.raised = "NotInitialized"]_vars

\* the tool invoked with no field while a world is cached
C27_Witness ==
    /\ hist # <<>> /\ hist[1].calls = <<>>
    /\ hist[1].returned = {NoUpdatesText}
    /\ hist[1].n = 1
    /\ client_open /\ Has(cache, The(get_world(W1, 1).cache_key))

----------------------------------------------------------------------------
(* SharedSpec: several tasks use one client at once.  The event loop runs  *)
(* one coroutine at a time, from one await to the next: rq is the request  *)
(* of the task that takes the next step, parked holds the requests of the  *)
(* others.  The remote service answers a read while the reading coroutine  *)
(* is suspended at line 213, and the answer reaches the coroutine later.   *)

MaxParked == 1

SharedCalls == {get_world(W1, 1), update_world(W1)}

SharedOutcomes(c) == {Timeout} \cup SuccessResponses(c, {"absent"})

\* a client just constructed, and tasks that have not called it yet
SharedInit ==
    /\ cache = <<>>
    /\ max_entries = CACHE_MAX_ENTRIES
    /\ default_ttl = DefaultTtl
    /\ now = 0
    /\ last = NoOp
    /\ recency = <<>>
    /\ written = [k \in KeysOf(SharedCalls) |-> None]
    /\ client_open = FALSE
    /\ max_retries \in 1..(MaxRetries - 1)
    /\ srv = 0
    /\ rq = Idle
    /\ prior = NoPrior
    /\ hist = <<>>
    /\ parked = [i \in 1..MaxParked |-> Idle]

\* the event loop turns to another task
Switch(i) ==
    /\ rq' = parked[i]
    /\ parked' = [parked EXCEPT ![i] = rq]
    /\ UNCHANGED <<cache, max_entries, default_ttl, now, written, client_open,
                   max_retries, srv, prior, hist>>
    /\ CacheHistoryIdle

HasReply(r) == "reply" \in DOMAIN r

\* the remote service answers the outstanding attempt of a read with o,
\* which shows the resource as it is now; the answer is on its way
Serve(o) ==
    /\ rq.pc = "net" /\ ~HasReply(rq)
    /\ rq.call.method \notin WriteMethods
    /\ rq' = [f \in DOMAIN rq \cup {"reply"} |-> IF f = "reply" THEN o ELSE rq[f]]
    /\ UNCHANGED <<cache, max_entries, default_ttl, now, written, client_open,
                   max_retries, srv, prior, hist, parked>>
    /\ CacheHistoryIdle

\* the answer reaches the coroutine, which runs on to its next await or
\* to its end
Deliver ==
    /\ rq.pc = "net" /\ HasReply(rq)
    /\ Respond(rq.reply, 0)

\* the outstanding attempt of a write ends: the service applies a write
\* when it answers it with a success
Finish(o) ==
    /\ rq.pc = "net"
    /\ rq.call.method \in WriteMethods
    /\ Respond(o, 0)

SharedNext ==
    \/ Enter
    \/ \E i \in 1..MaxParked : Switch(i)
    \/ \E c \in SharedCalls : Start(c)
    \/ (rq.pc = "net" /\ \E o \in SharedOutcomes(rq.call) : Serve(o))
    \/ Deliver
    \/ (rq.pc = "net" /\ \E o \in SharedOutcomes(rq.call) : Finish(o))
    \/ Wake

SharedSpec == SharedInit /\ [][SharedNext]_vars

\* a task calls _request and gets its answer from the cache
AnsweredFromCache ==
    /\ rq.pc \in {"idle", "done"} /\ parked' = parked
    /\ rq'.pc = "done" /\ rq'.how = "cache"

\* C28: under any interleaving of the requests of one client, once a
\* mutating call on a resource family has returned successfully, no GET
\* issued afterwards for a cache key that contains the family is answered
\* from the cache with a response that the network gave before the mutation
\* completed: a GET in flight while the mutation completes does not put its
\* response from before the mutation back into the cache.
C28_NoStaleReadAfterWrite ==
    [][(/\ AnsweredFromCache
        /\ Contains(The(rq'.call.cache_key), ResourceType(update_world(W1).path)))
       => rq'.result.ver = srv]_vars

\* the cache holds every key once
KeysOnce == Cardinality(StoredKeys(cache)) = Len(cache)

----------------------------------------------------------------------------
(* FrameSpec: what a request that raises leaves of the cache               *)

\* _request is called; hist keeps the cache and the clock as the call
\* found them
Invoke(c) ==
    /\ Request(c)
    /\ hist' = <<[at_call |-> cache, clock |-> now]>>

FrameNext ==
    \/ Enter
    \/ Exit
    \/ \E c \in Calls : Invoke(c)
    \/ (rq.pc = "net" /\ \E o \in Outcomes(rq.call) : Respond(o, 0))
    \/ Wake
    \/ Tick

FrameSpec == Init /\ [][FrameNext]_vars

\* the request has ended by raising
EndedRaising == rq.pc = "done" /\ rq.raised # Ok /\ hist # <<>>

\* the cache is the one the call found, but for the expired entry of the
\* request's own key, which the lookup of a GET removed
OnlyLazyRemoval ==
    LET c0 == hist[1].at_call
        k  == rq.call.cache_key
    IN \/ cache = c0
       \/ /\ rq.call.method = "GET"
          /\ k # Nil
          /\ Has(c0, The(k))
          /\ IsExpired(hist[1].clock, EntryOf(c0, The(k)))
          /\ cache = DelKey(c0, The(k))

\* C30: a request that ends by raising (a typed failure, exhausted
\* retries, client not initialized) leaves the cache as its call found it:
\* no entry added, overwritten or invalidated, nothing moved; the one
\* change it can have made is the removal of the expired entry stored
\* under its own cache key by the lookup of a GET.
C30_RaisingRequestLeavesCache == EndedRaising => OnlyLazyRemoval

\* the cache is the one the call found, but that the live entry of the
\* request's own key, which holds a JSON null, is now the most recent
NullEntryTouched ==
    LET c0 == hist[1].at_call
        k  == rq.call.cache_key
    IN /\ rq.call.method = "GET"
       /\ k # Nil
       /\ Has(c0, The(k))
       /\ ~IsExpired(hist[1].clock, EntryOf(c0, The(k)))
       /\ EntryOf(c0, The(k)).value = None
       /\ cache = move_to_end(c0, The(k))

\* what the code keeps: the entries of a request that raises are those the
\* call found, less the expired one of its own key; their order is the one
\* the call found unless a stored null was read as a miss
RaisingRequestKeepsEntries ==
    EndedRaising => (OnlyLazyRemoval \/ NullEntryTouched)

\* a GET found the expired entry of its key, removed it and raised
RaisingRequestRemovedExpired ==
    /\ EndedRaising
    /\ cache # hist[1].at_call
    /\ OnlyLazyRemoval

----------------------------------------------------------------------------
(* MutationSpec: writes on any path, and what follows their success        *)

\* _request called directly with a write on a path whose first segment is
\* not a regular expression, on a path without separator, on the path "/"
\* and on a path whose first segment is empty
WriteUnclosed == Call("POST", <<"/", "(", "w", "/", "1">>, Nil, Nil, Nil)

WriteRepeat == Call("DELETE", <<"/", "*", "/", "1">>, Nil, Nil, Nil)

WriteBare == Call("PUT", <<"w", "o", "r", "l", "d">>, Nil, Nil, Nil)

WriteRoot == Call("POST", <<"/">>, Nil, Nil, Nil)

WriteEmptySegment ==
    Call("PATCH", <<"/", "/", "w", "o", "r", "l", "d">>, Nil, Nil, Nil)

MutationCalls ==
    {get_identity, get_world(W1, 1), update_world(W1), WriteUnclosed,
     WriteRepeat, WriteBare, WriteRoot, WriteEmptySegment}

MutationOutcomes(c) ==
    {Response(HTTP_STATUS_NOT_FOUND, None, Nil)}
    \cup SuccessResponses(c, {"absent"})

MutationInit == InitWith(MutationCalls, {1})

MutationNext ==
    \/ Enter
    \/ \E c \in MutationCalls : Launch(c)
    \/ (rq.pc = "net" /\ \E o \in MutationOutcomes(rq.call) : Observe(o))

MutationSpec == MutationInit /\ [][MutationNext]_vars

\* the attempt of a write was answered with a success
WriteSucceeded ==
    /\ Answered
    /\ rq.call.method \in WriteMethods
    /\ FailureClass(LastOutcome) = "none"
    /\ LastOutcome.body # [json |-> "invalid"]

\* C31: every network attempt of a mutating verb that ends with a
\* successful outcome returns the parsed body of the response to the
\* caller, whatever the path of the request: the invalidation of the cache
\* that follows the success never makes the request raise.
C31_SuccessfulMutationReturnsBody ==
    WriteSucceeded => (rq.raised = Ok /\ rq.result = LastOutcome.body)

\* what the code keeps: a write whose first path segment compiles as a
\* regular expression returns the body
MutationReturnsBodyWhenSegmentCompiles ==
    (/\ WriteSucceeded
     /\ re_compile(InvalidationPattern(ResourceType(rq.call.path))) # BadPattern)
    => (rq.raised = Ok /\ rq.result = LastOutcome.body)

\* the path has no separator, or nothing between its first separator and
\* the next one or the end
NoFirstSegment(path) ==
    \/ \A i \in 1..Len(path) : path[i] # "/"
    \/ LET first == CHOOSE i \in 1..Len(path) :
                       path[i] = "/" /\ \A j \in 1..(i - 1) : path[j] # "/"
       IN first = Len(path) \/ path[first + 1] = "/"

\* a step of a write on such a path: its call, or its answer with a success
SegmentlessWriteStep ==
    /\ \/ rq.pc \in {"idle", "done"} /\ rq'.pc = "net"
       \/ rq.pc = "net" /\ rq'.pc = "done" /\ rq'.raised = Ok
    /\ rq'.call.method \in WriteMethods
    /\ NoFirstSegment(rq'.call.path)

\* C33: a successful mutating call whose path has no separator, or nothing
\* after its first separator (the path "/"), invalidates nothing: from its
\* call to its return the cache keeps every entry, each with its value and
\* expiration, in the same recency order.
C33_SegmentlessWriteInvalidatesNothing ==
    [][SegmentlessWriteStep => cache' = cache]_vars

\* a write on the path "world" has succeeded while a world and the
\* identity are cached
C33_Witness ==
    /\ rq.pc = "done" /\ rq.raised = Ok /\ rq.how = "network"
    /\ rq.call = WriteBare
    /\ Len(cache) = 2
    /\ Has(cache, The(get_world(W1, 1).cache_key))

----------------------------------------------------------------------------
(* ClosedSpec: requests issued outside a session                           *)

\* _request is called; hist keeps the cache, the clock and the session as
\* the call found them
Dispatch(c) ==
    /\ Request(c)
    /\ hist' = <<[at_call |-> cache, clock |-> now, open |-> client_open]>>

ClosedNext ==
    \/ Enter
    \/ Exit
    \/ \E c \in Calls : Dispatch(c)
    \/ (rq.pc = "net" /\ \E o \in Outcomes(rq.call) : Respond(o, 0))
    \/ Wake
    \/ Tick

ClosedSpec == Init /\ [][ClosedNext]_vars

\* the latest request was issued while no session was open
IssuedClosed == hist # <<>> /\ ~hist[1].open

\* the latest request is a GET with a cache key under which the call found
\* a live entry
FoundLive ==
    LET k == rq.call.cache_key IN
    /\ rq.call.method = "GET"
    /\ k # Nil
    /\ Has(hist[1].at_call, The(k))
    /\ ~IsExpired(hist[1].clock, EntryOf(hist[1].at_call, The(k)))

FoundValue == EntryOf(hist[1].at_call, The(rq.call.cache_key)).value

\* C32: a request issued while no session is open, before the session is
\* entered or after it has ended, makes no network call: it raises the
\* client-not-initialized failure, unless it is a GET with a cache key
\* whose entry is live, which returns the cached value (the lookup comes
\* before the session check and the end of a session leaves the cache).
C32_ClosedSessionMakesNoNetworkCall ==
    IssuedClosed
    => /\ rq.pc = "done"
       /\ rq.net = 0
       /\ IF FoundLive
          THEN rq.raised = Ok /\ rq.how = "cache" /\ rq.result = FoundValue
          ELSE rq.raised = "NotInitialized"

\* what the code keeps: no network call, the cached value when it is not a
\* JSON null, the failure otherwise
ClosedSessionReturnsNonNull ==
    IssuedClosed
    => /\ rq.pc = "done"
       /\ rq.net = 0
       /\ IF FoundLive /\ FoundValue # None
          THEN rq.raised = Ok /\ rq.how = "cache" /\ rq.result = FoundValue
          ELSE rq.raised = "NotInitialized"

\* a world read in a session is returned from the cache after the session
\* has ended
ClosedSessionServedFromCache ==
    /\ IssuedClosed /\ FoundLive
    /\ rq.raised = Ok /\ rq.how = "cache"

----------------------------------------------------------------------------
(* CacheSpec: what get reports, and the expiration of an entry             *)

\* key k is stored and its entry has not expired
Live(k) == Has(cache, k) /\ ~IsExpired(now, EntryOf(cache, k))

\* C34: get(key) reports a miss exactly when the key is not stored or its
\* entry has expired; for every stored value, get on a live key returns
\* that value and moves the entry to the most recently used position.
C34_GetMissIffAbsentOrExpired ==
    [][last'.op = "get"
       => LET k == last'.key IN
          /\ (last'.ret = None) <=> ~Live(k)
          /\ Live(k) => /\ last'.ret = EntryOf(cache, k).value
                        /\ cache' = Append(DelKey(cache, k), EntryOf(cache, k))]_vars

\* what the code keeps: a get that returns a value other than None found a
\* live entry, and get on a live key returns its value, None when that is
\* the value stored, and moves the entry to the end
GetReturnsStoredValue ==
    [][last'.op = "get"
       => LET k == last'.key IN
          /\ last'.ret # None => Live(k)
          /\ ~Live(k) => last'.ret = None /\ ~Has(cache', k)
          /\ Live(k) => /\ last'.ret = EntryOf(cache, k).value
                        /\ cache' = Append(DelKey(cache, k), EntryOf(cache, k))]_vars

----------------------------------------------------------------------------
(* ExpirySpec: entries that live through several reads                     *)

\* set(key, value) and set(key, value, ttl=LongTtl)
ExpiryTtls == {Nil, Some(LongTtl)}

ExpiryInit ==
    /\ cache = <<>>
    /\ max_entries \in 1..MaxCapacity
    /\ default_ttl = DefaultTtl
    /\ now = 0
    /\ last = NoOp
    /\ recency = [k \in CacheKeys |-> 0]
    /\ written = [k \in CacheKeys |-> None]
    /\ client_open = FALSE
    /\ max_retries = 0
    /\ srv = 0
    /\ rq = [pc |-> "idle"]
    /\ prior = [live |-> FALSE, value |-> None]
    /\ hist = <<>>
    /\ parked = <<>>

\* time.time() moves on
Elapse ==
    /\ now < MaxClock
    /\ now' = now + 1
    /\ last' = NoOp
    /\ UNCHANGED <<cache, max_entries, default_ttl, recency, written>>
    /\ PipelineIdle

ExpiryNext ==
    \/ \E k \in CacheKeys : Get(k)
    \/ \E k \in CacheKeys, ttl \in ExpiryTtls : Set(k, [py |-> "v1"], ttl)
    \/ \E k \in CacheKeys : Invalidate(k)
    \/ InvalidatePattern(<<"u", ".", "*">>)
    \/ Stats
    \/ Elapse

ExpirySpec == ExpiryInit /\ [][ExpiryNext]_vars

\* the step is a set on key k that stored its entry
SetOn(k) == last'.op = "set" /\ last'.key = k /\ last'.raised = Ok

\* C35: the expiration of an entry is fixed when the entry is written and
\* changes only by a later set on the same key: no get, stats,
\* invalidation, pattern invalidation, eviction or passing of time changes
\* the expiration (or the value) of an entry that stays stored, so a get
\* hits a key only before the time of its latest write + its TTL.
C35_ExpirationFixedAtWrite ==
    [][/\ \A k \in StoredKeys(cache) \cap StoredKeys(cache') :
             SetOn(k) \/ EntryOf(cache', k) = EntryOf(cache, k)
       /\ (last'.op = "get" /\ Has(cache', last'.key))
             => /\ written[last'.key] # None
                /\ now < written[last'.key].until
                /\ EntryOf(cache', last'.key).expires_at = written[last'.key].until]_vars

\* a get hits a key in the second after its write, with another entry
\* stored: the entry still expires when its write said
C35_Witness ==
    /\ last.op = "get" /\ Has(cache, last.key)
    /\ now >= 1
    /\ Len(cache) = 2
    /\ EntryOf(cache, last.key).expires_at = written[last.key].until
    /\ EntryOf(cache, last.key).expires_at = now + 1
    /\ recency[last.key] = 2

====
